---- MODULE Spec2Model ----
(***************************************************************************)
(* Model of the signature utilities (packages/util/src/signature.ts) and   *)
(* of the blob transaction (packages/tx/src/eip4844Transaction.ts).        *)
(*                                                                         *)
(* A Buffer is a sequence of bytes (0..255).  A hex string is the sequence *)
(* of the hex digits (0..15) that follow its "0x" prefix.  A bigint is an  *)
(* integer.                                                                *)
(***************************************************************************)
EXTENDS Integers, Sequences, FiniteSets, TLC

VARIABLES
    v, r, s,        \* the (v, r, s) arguments of toRpcSig / toCompactSig
    sig,            \* a hex string handed to fromRpcSig by a caller
    rpcSig,         \* outcome of toRpcSig(v, r, s)
    compactSig,     \* outcome of toCompactSig(v, r, s)
    decoded,        \* outcomes of fromRpcSig, one per origin of its input
    sigRecovery,    \* outcome of calculateSigRecovery(v)
    signed,         \* outcome of ecsign, when (v, r, s) come from it
    tx,             \* the BlobEIP4844Transaction a caller holds, if any
    heap,           \* the arrays of versioned hashes, by reference
    constructed,    \* outcome of the last construction, and what it was given
    serialized,     \* bytes a caller holds: of tx.serialize(), or from a peer
    sender,         \* outcome of tx.getSenderPublicKey()
    hashed,         \* what tx.hash() returned: at construction, and last
    mutated,        \* the caller's attempts to change tx: how many, the last
    valid,          \* outcomes of isValidSignature(v, r, s, .), one per policy
    recovered,      \* outcome of ecrecover(msgHash, v, r, s)
    wrapper,        \* a serialized BlobNetworkTransactionWrapper from a peer
    manager,        \* a StatelessVerkleStateManager: its private fields
    managerCall,    \* outcome of the last call on the manager
    copied          \* what manager.copy() returned, and of which manager

sigVars == <<v, r, s, sig, rpcSig, compactSig, decoded, sigRecovery, signed>>

txVars == <<tx, heap, constructed, serialized, sender, hashed, mutated>>

verifyVars == <<valid, recovered>>

wrapVars == <<wrapper>>

verkleVars == <<manager, managerCall, copied>>

restVars == <<verifyVars, wrapVars, verkleVars>>

vars == <<sigVars, txVars, restVars>>

----------------------------------------------------------------------------
(* Bounds of the model                                                     *)

\* v ranges over 0..MaxV: covers 0, 1, 27, 28, both quirk bands, and EIP-155
\* values of one and of two bytes.
MaxV == 260

\* fromRpcSig is handed strings of up to 65 + MaxExtraBytes bytes.
MaxExtraBytes == 2

\* ecsign is given no chain id or one in 0..MaxChainId (v of up to two bytes).
MaxChainId == 112

\* The transaction's integers are MaxIntegerBits wide in place of 256: the
\* checks compare against MAX_INTEGER whatever its width.
MaxIntegerBits == 4

\* A caller changes a transaction it holds at most MaxMutations times.
MaxMutations == 1

\* A state manager holds at most MaxCheckpoints outstanding checkpoints.
MaxCheckpoints == 2

----------------------------------------------------------------------------
(* Outcomes of a call                                                      *)

NotCalled == [status |-> "none", value |-> <<>>, error |-> ""]

Return(x) == [status |-> "ok", value |-> x, error |-> ""]

Throw(msg) == [status |-> "throw", value |-> <<>>, error |-> msg]

----------------------------------------------------------------------------
(* Byte helpers (packages/util/src/bytes.ts and node's Buffer)             *)

RECURSIVE Flatten(_)
Flatten(seqs) == IF seqs = <<>> THEN <<>> ELSE Head(seqs) \o Flatten(Tail(seqs))

\* Buffer.concat(list)
BufferConcat(list) == Flatten(list)

zeros(length) == [i \in 1..length |-> 0]

\* Buffer.prototype.slice(start, end) for 0 <= start, clamped to the length.
slice(buf, start, end) ==
    LET e == IF end > Len(buf) THEN Len(buf) ELSE end
    IN  IF start >= e THEN <<>> ELSE SubSeq(buf, start + 1, e)

\* setLengthLeft: left-pads with zeros, or keeps the rightmost `length` bytes.
setLengthLeft(msg, length) ==
    IF Len(msg) < length
    THEN zeros(length - Len(msg)) \o msg
    ELSE SubSeq(msg, Len(msg) - length + 1, Len(msg))

\* bufferToHex: two hex digits per byte (after the "0x" prefix).
bufferToHex(buf) ==
    [i \in 1..(2 * Len(buf)) |->
        IF i % 2 = 1 THEN buf[(i + 1) \div 2] \div 16 ELSE buf[i \div 2] % 16]

padToEven(hex) == IF Len(hex) % 2 = 1 THEN <<0>> \o hex ELSE hex

\* toBuffer(string): the bytes of a 0x-prefixed hex string.
hexToBuffer(hex) ==
    LET h == padToEven(hex)
    IN  [i \in 1..(Len(h) \div 2) |-> 16 * h[2 * i - 1] + h[2 * i]]

RECURSIVE bufferToBigInt(_)
\* bufferToBigInt: big-endian value, 0 for the empty buffer.
bufferToBigInt(buf) ==
    IF buf = <<>> THEN 0
    ELSE 256 * bufferToBigInt(SubSeq(buf, 1, Len(buf) - 1)) + buf[Len(buf)]

\* bufferToInt: the same value as a number.
bufferToInt(buf) == bufferToBigInt(buf)

RECURSIVE bigIntBytes(_)
bigIntBytes(n) == IF n = 0 THEN <<>> ELSE Append(bigIntBytes(n \div 256), n % 256)

\* toBuffer(bigint): v.toString(16) padded to an even number of digits, so the
\* minimal big-endian bytes, and one zero byte for 0n.
bigIntToBuffer(n) == IF n = 0 THEN <<0>> ELSE bigIntBytes(n)

\* a % b on bigints: the remainder takes the sign of the dividend.
BigIntRem(a, b) == IF a >= 0 THEN a % b ELSE 0 - ((0 - a) % b)

\* A 32-byte buffer given by its first byte and the value of the others.
Bytes32(first, fill) == [i \in 1..32 |-> IF i = 1 THEN first ELSE fill]

\* byte | 0x80, byte & 0x7f, byte >> 7
Or0x80(b) == IF b >= 128 THEN b ELSE b + 128
And0x7f(b) == IF b >= 128 THEN b - 128 ELSE b
Shr7(b) == b \div 128

----------------------------------------------------------------------------
(* packages/util/src/signature.ts                                          *)

NoChainId == 0 - 1

\* signSync of ethereum-cryptography: the 64-byte signature r || s and the
\* recovery bit of some (msgHash, privateKey); which one is up to the inputs.
SignSyncResults ==
    { [signature |-> Bytes32(17, 34) \o Bytes32(s1, 51), rec |-> rec] :
          s1 \in {18, 19}, rec \in {0, 1} }

ecsign_offsetBy36(signSync, chainId) ==
    [ r |-> slice(signSync.signature, 0, 32),
      s |-> slice(signSync.signature, 32, 64),
      v |-> IF chainId = NoChainId THEN signSync.rec + 27
            ELSE (signSync.rec + 36) + chainId * 2,
      recovery |-> signSync.rec ]

ecsign(signSync, chainId) ==
    [ r |-> slice(signSync.signature, 0, 32),
      s |-> slice(signSync.signature, 32, 64),
      v |-> IF chainId = NoChainId THEN signSync.rec + 27
            ELSE (signSync.rec + 35) + chainId * 2,
      recovery |-> signSync.rec ]

calculateSigRecovery_evenIsZero(vv) ==
    IF vv > 28 /\ vv < 35 THEN vv
    ELSE IF vv < 27 /\ vv > 1 THEN vv
    ELSE IF vv = 27 \/ vv = 28 THEN vv - 27
    ELSE IF vv = 0 \/ vv = 1 THEN vv
    ELSE IF BigIntRem(vv, 2) = 0 THEN 0
    ELSE 1

calculateSigRecovery(vv) ==
    IF vv > 28 /\ vv < 35 THEN vv
    ELSE IF vv < 27 /\ vv > 1 THEN vv
    ELSE IF vv = 27 \/ vv = 28 THEN vv - 27
    ELSE IF vv = 0 \/ vv = 1 THEN vv
    ELSE IF BigIntRem(0 - 35 - vv, 2) = 0 THEN 0
    ELSE 1

isValidSigRecovery(recovery) == recovery = 0 \/ recovery = 1

toRpcSig_oneByteV(vv, rr, ss) ==
    IF ~isValidSigRecovery(calculateSigRecovery(vv))
    THEN Throw("Invalid signature v value")
    ELSE Return(bufferToHex(BufferConcat(
             <<setLengthLeft(rr, 32), setLengthLeft(ss, 32), <<vv % 256>> >>)))

toRpcSig(vv, rr, ss) ==
    IF ~isValidSigRecovery(calculateSigRecovery(vv))
    THEN Throw("Invalid signature v value")
    ELSE Return(bufferToHex(BufferConcat(
             <<setLengthLeft(rr, 32), setLengthLeft(ss, 32), bigIntToBuffer(vv)>>)))

toCompactSig(vv, rr, ss) ==
    IF ~isValidSigRecovery(calculateSigRecovery(vv))
    THEN Throw("Invalid signature v value")
    ELSE LET ss1 == IF (vv > 28 /\ vv % 2 = 1) \/ vv = 1 \/ vv = 28
                    THEN \* ss = Buffer.from(s); ss[0] |= 0x80 (no byte 0: no effect)
                         IF ss = <<>> THEN ss
                         ELSE [ss EXCEPT ![1] = Or0x80(ss[1])]
                    ELSE ss
         IN  Return(bufferToHex(BufferConcat(
                 <<setLengthLeft(rr, 32), setLengthLeft(ss1, 32)>>)))

ECDSASignature(vv, rr, ss, recovery) ==
    [v |-> vv, r |-> rr, s |-> ss, recovery |-> recovery]

fromRpcSig_exactLength(str) ==
    LET buf == hexToBuffer(str)
        len == Len(buf)
        rr  == slice(buf, 0, 32)
        s0  == slice(buf, 32, 64)
        v0  == IF len = 65 THEN bufferToBigInt(slice(buf, 64, len))
               ELSE Shr7(bufferToInt(slice(buf, 32, 33)))
        ss  == IF len = 65 THEN s0 ELSE [s0 EXCEPT ![1] = And0x7f(s0[1])]
        recovery == calculateSigRecovery(v0)
        v1  == IF v0 < 27 THEN v0 + 27 ELSE v0
    IN  IF len = 65 \/ len = 64
        THEN Return(ECDSASignature(v1, rr, ss, recovery))
        ELSE Throw("Invalid signature length")

fromRpcSig(str) ==
    LET buf == hexToBuffer(str)
        len == Len(buf)
        rr  == slice(buf, 0, 32)
        s0  == slice(buf, 32, 64)
        v0  == IF len >= 65 THEN bufferToBigInt(slice(buf, 64, len))
               ELSE Shr7(bufferToInt(slice(buf, 32, 33)))
        ss  == IF len >= 65 THEN s0 ELSE [s0 EXCEPT ![1] = And0x7f(s0[1])]
        recovery == calculateSigRecovery(v0)
        v1  == IF v0 < 27 THEN v0 + 27 ELSE v0
    IN  IF len >= 65 \/ len = 64
        THEN Return(ECDSASignature(v1, rr, ss, recovery))
        ELSE Throw("Invalid signature length")

\* The secp256k1 group order and its half (packages/util/src/constants.ts),
\* as 32 big-endian bytes: 0xffffffff ffffffff ffffffff fffffffe baaedce6
\* af48a03b bfd25e8c d0364141, and that number divided by two.
SECP256K1_ORDER ==
    << 255, 255, 255, 255, 255, 255, 255, 255, 255, 255, 255, 255, 255, 255, 255, 254,
       186, 174, 220, 230, 175, 72, 160, 59, 191, 210, 94, 140, 208, 54, 65, 65 >>

SECP256K1_ORDER_DIV_2_BYTES ==
    << 127, 255, 255, 255, 255, 255, 255, 255, 255, 255, 255, 255, 255, 255, 255, 255,
       93, 87, 110, 115, 87, 164, 80, 29, 223, 233, 47, 70, 104, 27, 32, 160 >>

\* bufferToBigInt(a) >= b for a buffer a and a number b of the same byte
\* length, b given by its big-endian bytes.
BigIntGte(a, b) ==
    \/ a = b
    \/ \E i \in 1..Len(a) :
          /\ a[i] > b[i]
          /\ \A j \in 1..(i - 1) : a[j] = b[j]

\* bufferToBigInt(a) === BigInt(0)
BigIntIsZero(a) == \A i \in 1..Len(a) : a[i] = 0

\* An omitted homesteadOrLater takes its default.
HomesteadOrLater(arg) == IF arg = <<>> THEN TRUE ELSE arg[1]

isValidSignature_alwaysLowS(vv, rr, ss, homesteadOrLater) ==
    IF Len(rr) # 32 \/ Len(ss) # 32 THEN FALSE
    ELSE IF ~isValidSigRecovery(calculateSigRecovery(vv)) THEN FALSE
    ELSE IF \/ BigIntIsZero(rr)
            \/ BigIntGte(rr, SECP256K1_ORDER)
            \/ BigIntIsZero(ss)
            \/ BigIntGte(ss, SECP256K1_ORDER)
    THEN FALSE
    ELSE IF BigIntGte(ss, SECP256K1_ORDER_DIV_2_BYTES) THEN FALSE
    ELSE TRUE

isValidSignature(vv, rr, ss, homesteadOrLater) ==
    IF Len(rr) # 32 \/ Len(ss) # 32 THEN FALSE
    ELSE IF ~isValidSigRecovery(calculateSigRecovery(vv)) THEN FALSE
    ELSE IF \/ BigIntIsZero(rr)
            \/ BigIntGte(rr, SECP256K1_ORDER)
            \/ BigIntIsZero(ss)
            \/ BigIntGte(ss, SECP256K1_ORDER)
    THEN FALSE
    ELSE IF HomesteadOrLater(homesteadOrLater)
            /\ BigIntGte(ss, SECP256K1_ORDER_DIV_2_BYTES)
    THEN FALSE
    ELSE TRUE

ecrecover_unchecked(vv, rr, ss) ==
    Return([ signature |-> slice(BufferConcat(
                               <<setLengthLeft(rr, 32), setLengthLeft(ss, 32)>>), 0, 64),
             recovery |-> calculateSigRecovery(vv) ])

\* ecrecover up to its call of recoverPublicKey: the signature and the
\* recovery value it passes, or the error thrown before the call.
ecrecover(vv, rr, ss) ==
    LET signature == slice(BufferConcat(
                         <<setLengthLeft(rr, 32), setLengthLeft(ss, 32)>>), 0, 64)
        recovery == calculateSigRecovery(vv)
    IN  IF ~isValidSigRecovery(recovery)
        THEN Throw("Invalid signature v value")
        ELSE Return([signature |-> signature, recovery |-> recovery])

----------------------------------------------------------------------------
(* packages/tx/src/eip4844Transaction.ts                                   *)
(*                                                                         *)
(* An optional value is <<>> (undefined / null) or <<x>>.  An object is a  *)
(* record; reading a property it does not have gives undefined.            *)

undefined == <<>>

Defined(x) == <<x>>

Prop(obj, key) == IF key \in DOMAIN obj THEN Defined(obj[key]) ELSE undefined

\* bufferToBigInt(toBuffer(x)) of a property: undefined is the empty buffer, so 0.
PropToBigInt(p) == IF p = undefined THEN 0 ELSE p[1]

MAX_INTEGER == 2^MaxIntegerBits - 1

SECP256K1_ORDER_DIV_2 == MAX_INTEGER \div 2

TRANSACTION_TYPE == 5

BLOB_COMMITMENT_VERSION_KZG == 1

\* The per-transaction blob limit, scaled to a length the model enumerates.
LIMIT_BLOBS_PER_TX == 2

\* keccak256 as a collision-free function of its input.
keccak256(bytes) == <<"keccak256", bytes>>

\* BaseTransaction's constructor: the common fields, then their bounds.
BaseTransaction(txData) ==
    LET nonce    == PropToBigInt(Prop(txData, "nonce"))
        gasLimit == PropToBigInt(Prop(txData, "gasLimit"))
        value    == PropToBigInt(Prop(txData, "value"))
        optional(key) == IF Prop(txData, key) = undefined THEN undefined
                         ELSE txData[key]
        vv == optional("v")
        rr == optional("r")
        ss == optional("s")
        exceeds(x) == x # undefined /\ x[1] > MAX_INTEGER
    IN  IF value > MAX_INTEGER
        THEN Throw("value cannot exceed MAX_INTEGER")
        ELSE IF exceeds(rr) THEN Throw("r cannot exceed MAX_INTEGER")
        ELSE IF exceeds(ss) THEN Throw("s cannot exceed MAX_INTEGER")
        ELSE IF gasLimit > MAX_INTEGER
        THEN Throw("gasLimit cannot exceed MAX_INTEGER")
        ELSE IF nonce > MAX_INTEGER
        THEN Throw("nonce cannot exceed MAX_INTEGER")
        ELSE Return([ nonce |-> nonce, gasLimit |-> gasLimit,
                      to |-> optional("to"), value |-> value,
                      data |-> IF Prop(txData, "data") = undefined THEN <<>>
                               ELSE txData.data,
                      v |-> vv, r |-> rr, s |-> ss ])

FirstRejectedHash_lengthOnly(hashes) ==
    LET bad == { i \in 1..Len(hashes) : Len(hashes[i]) # 32 }
    IN  IF bad = {} THEN 0 ELSE CHOOSE i \in bad : \A j \in bad : i <= j

\* The index of the first versioned hash the constructor's loop rejects, or 0.
FirstRejectedHash(hashes) ==
    LET bad == { i \in 1..Len(hashes) :
                   \/ Len(hashes[i]) # 32
                   \/ hashes[i][1] # BLOB_COMMITMENT_VERSION_KZG }
    IN  IF bad = {} THEN 0 ELSE CHOOSE i \in bad : \A j \in bad : i <= j

\* new BlobEIP4844Transaction(txData, opts), txData.versionedHashes being the
\* array at heapNow[txData.versionedHashes]: the object, or the error thrown.
BlobEIP4844Transaction(txData, opts, heapNow) ==
    LET base == BaseTransaction(txData)
        this == base.value
        maxFeePerGas == PropToBigInt(Prop(txData, "maxFeePerGas"))
        maxPriorityFeePerGas == PropToBigInt(Prop(txData, "maxPriorityFeePerGas"))
        hashes == heapNow[txData.versionedHashes]
        rejected == FirstRejectedHash(hashes)
        freeze == IF opts.freeze = undefined THEN TRUE ELSE opts.freeze[1]
    IN  IF base.status = "throw" THEN base
        ELSE IF ~opts.eip1559 THEN Throw("EIP-1559 not enabled on Common")
        ELSE IF maxFeePerGas > MAX_INTEGER
        THEN Throw("maxFeePerGas cannot exceed MAX_INTEGER")
        ELSE IF maxPriorityFeePerGas > MAX_INTEGER
        THEN Throw("maxPriorityFeePerGas cannot exceed MAX_INTEGER")
        ELSE IF this.gasLimit * maxFeePerGas > MAX_INTEGER
        THEN Throw("gasLimit * maxFeePerGas cannot exceed MAX_INTEGER (2^256-1)")
        ELSE IF maxFeePerGas < maxPriorityFeePerGas
        THEN Throw("maxFeePerGas cannot be less than maxPriorityFeePerGas (The total must be the larger of the two)")
        ELSE IF this.v # undefined /\ this.v[1] # 0 /\ this.v[1] # 1
        THEN Throw("The y-parity of the transaction should either be 0 or 1")
        ELSE IF this.s # undefined /\ this.s[1] > SECP256K1_ORDER_DIV_2
        THEN Throw("Invalid Signature: s-values greater than secp256k1n/2 are considered invalid")
        ELSE IF rejected # 0 /\ Len(hashes[rejected]) # 32
        THEN Throw("versioned hash is invalid length")
        ELSE IF rejected # 0
        THEN Throw("versioned hash does not start with KZG commitment version")
        ELSE IF Len(hashes) > LIMIT_BLOBS_PER_TX
        THEN Throw("tx can contain at most LIMIT_BLOBS_PER_TX blobs")
        ELSE Return([ nonce |-> this.nonce, gasLimit |-> this.gasLimit,
                      to |-> this.to, value |-> this.value, data |-> this.data,
                      v |-> this.v, r |-> this.r, s |-> this.s,
                      accessList |-> txData.accessList,
                      maxFeePerGas |-> maxFeePerGas,
                      maxPriorityFeePerGas |-> maxPriorityFeePerGas,
                      maxFeePerDataGas |-> txData.maxFeePerDataGas,
                      versionedHashes |-> txData.versionedHashes,
                      frozen |-> freeze ])

\* An unsigned integer of the SSZ container: the low MaxIntegerBits bits.
SszUint(n) == n % (2^MaxIntegerBits)

\* The value SignedBlobTransactionType.serialize is given; the SSZ bytes are
\* one-to-one with it.
SignedBlobTransaction(this, heapNow) ==
    [ message |->
        [ chainId |-> 1,
          nonce |-> SszUint(this.nonce),
          priorityFeePerGas |-> SszUint(this.maxPriorityFeePerGas),
          maxFeePerGas |-> SszUint(this.maxFeePerGas),
          gas |-> SszUint(this.gasLimit),
          to |-> [ selector |-> IF this.to # undefined THEN 1 ELSE 0,
                   value |-> this.to ],
          value |-> SszUint(this.value),
          data |-> this.data,
          accessList |-> [ i \in 1..Len(this.accessList) |->
                             [ address |-> this.accessList[i][1],
                               storageKeys |-> this.accessList[i][2] ] ],
          blobVersionedHashes |-> heapNow[this.versionedHashes],
          maxFeePerDataGas |-> SszUint(this.maxFeePerDataGas) ],
      signature |->
        [ r |-> SszUint(IF this.r # undefined THEN this.r[1] ELSE 0),
          s |-> SszUint(IF this.s # undefined THEN this.s[1] ELSE 0),
          yParity |-> (this.v = Defined(1)) ] ]

\* serialize(): the type byte, then the SSZ encoding.
serialize(this, heapNow) ==
    [ typeByte |-> TRANSACTION_TYPE, ssz |-> SignedBlobTransaction(this, heapNow) ]

hash(this, heapNow) == keccak256(serialize(this, heapNow))

\* The txData fromSerializedTx hands to the constructor: the decoded message
\* spread under its own property names, then the properties set over it.
\* serialized.slice(1) drops the type byte unread.
fromSerializedTxData(bytes, ref) ==
    LET dec == bytes.ssz
        msg == dec.message
    IN  [ chainId |-> msg.chainId,
          nonce |-> msg.nonce,
          priorityFeePerGas |-> msg.priorityFeePerGas,
          maxFeePerGas |-> msg.maxFeePerGas,
          gas |-> msg.gas,
          value |-> msg.value,
          data |-> msg.data,
          blobVersionedHashes |-> msg.blobVersionedHashes,
          maxFeePerDataGas |-> msg.maxFeePerDataGas,
          versionedHashes |-> ref,
          to |-> msg.to.value,
          accessList |-> [ i \in 1..Len(msg.accessList) |->
                             <<msg.accessList[i].address,
                               msg.accessList[i].storageKeys>> ],
          r |-> Defined(dec.signature.r),
          s |-> Defined(dec.signature.s),
          v |-> Defined(IF dec.signature.yParity THEN 1 ELSE 0) ]

validateBlobTransactionNetworkWrapper_hashesAndBlobsOnly(versionedHashes, blobs, commitments, kzgProof) ==
    IF ~(Len(versionedHashes) = Len(blobs))
    THEN Throw("Number of versionedHashes, blobs, and commitments not all equal")
    ELSE Return(<<>>)

\* The proof is not looked at.
validateBlobTransactionNetworkWrapper(versionedHashes, blobs, commitments, kzgProof) ==
    IF ~(Len(versionedHashes) = Len(blobs) /\ Len(blobs) = Len(commitments))
    THEN Throw("Number of versionedHashes, blobs, and commitments not all equal")
    ELSE Return(<<>>)

\* The txData fromSerializedBlobTxNetworkWrapper hands to the constructor: the
\* decoded message spread under its own property names, then the properties
\* set over it.
fromSerializedBlobTxNetworkWrapperData(bytes, ref) ==
    LET wrap == bytes.ssz
        decodedTx == wrap.tx.message
    IN  [ chainId |-> decodedTx.chainId,
          nonce |-> decodedTx.nonce,
          priorityFeePerGas |-> decodedTx.priorityFeePerGas,
          maxFeePerGas |-> decodedTx.maxFeePerGas,
          gas |-> decodedTx.gas,
          value |-> decodedTx.value,
          data |-> decodedTx.data,
          blobVersionedHashes |-> decodedTx.blobVersionedHashes,
          maxFeePerDataGas |-> decodedTx.maxFeePerDataGas,
          versionedHashes |-> ref,
          accessList |-> [ i \in 1..Len(decodedTx.accessList) |->
                             <<decodedTx.accessList[i].address,
                               decodedTx.accessList[i].storageKeys>> ],
          to |-> decodedTx.to.value,
          blobs |-> wrap.blobs,
          kzgCommitments |-> wrap.blobKzgs,
          kzgProof |-> wrap.kzgAggregatedProof,
          r |-> Defined(wrap.tx.signature.r),
          s |-> Defined(wrap.tx.signature.s),
          v |-> Defined(IF wrap.tx.signature.yParity THEN 1 ELSE 0) ]

isSigned(this) == this.v # undefined /\ this.r # undefined /\ this.s # undefined

\* bigIntToUnpaddedBuffer: the big-endian bytes without leading zeros.
bigIntToUnpaddedBuffer(n) == bigIntBytes(n)

\* getSenderPublicKey() up to its call of ecrecover: the arguments of that
\* call, or the error thrown before it.
getSenderPublicKeyCall(this, heapNow) ==
    IF ~isSigned(this)
    THEN Throw("Cannot call this method if transaction is not signed")
    ELSE IF this.s[1] > SECP256K1_ORDER_DIV_2
    THEN Throw("Invalid Signature: s-values greater than secp256k1n/2 are considered invalid")
    ELSE Return([ msgHash |-> hash(this, heapNow),
                  v |-> this.v[1] + 27,
                  r |-> bigIntToUnpaddedBuffer(this.r[1]),
                  s |-> bigIntToUnpaddedBuffer(this.s[1]) ])

----------------------------------------------------------------------------
(* StatelessVerkleStateManager (packages/tx/src/eip4844Transaction.ts)     *)
(*                                                                         *)
(* A VerkleState is the set of its (key, value) entries.  super.checkpoint, *)
(* super.commit and super.revert act on the account cache, which none of    *)
(* the fields below depends on.                                             *)

\* new StatelessVerkleStateManager(opts): the field initializers.
StatelessVerkleStateManager ==
    [ _proof |-> "0x", _preState |-> {}, _state |-> {}, _checkpoints |-> <<>> ]

initPreState(this, proof, preState) ==
    [this EXCEPT !._proof = proof, !._preState = preState, !._state = preState]

checkpoint(this) ==
    [this EXCEPT !._checkpoints = Append(@, this._state)]

\* Array.prototype.pop on an empty array does nothing.
commit(this) ==
    [this EXCEPT !._checkpoints =
        IF @ = <<>> THEN @ ELSE SubSeq(@, 1, Len(@) - 1)]

\* revert(): the manager after the call, or the error thrown.
revert(this) ==
    IF Len(this._checkpoints) = 0
    THEN Throw("StatelessVerkleStateManager state cannot be reverted, no checkpoints set")
    ELSE Return([this EXCEPT
                    !._state = this._checkpoints[Len(this._checkpoints)],
                    !._checkpoints = SubSeq(@, 1, Len(@) - 1)])

copy(this) == StatelessVerkleStateManager

----------------------------------------------------------------------------
(* Inputs of the transaction operations                                    *)

Address1 == [i \in 1..20 |-> 161]

StorageKey1 == Bytes32(11, 12)

\* to, data and the access list: a contract creation without data, and a call.
Payloads ==
    { [to |-> undefined, data |-> <<>>, accessList |-> <<>>],
      [to |-> Defined(Address1), data |-> <<202, 254>>,
       accessList |-> << <<Address1, <<StorageKey1>> >> >>] }

\* The integers: every combination of values in range, and each field alone
\* out of range.
Numbers ==
    LET inRange ==
          [ nonce : {1}, gasLimit : {0, 2}, value : {3},
            maxFeePerGas : {5, MAX_INTEGER},
            maxPriorityFeePerGas : {0, 4, 6},
            maxFeePerDataGas : {6, MAX_INTEGER + 1} ]
        base == [ nonce |-> 1, gasLimit |-> 0, value |-> 3, maxFeePerGas |-> 5,
                  maxPriorityFeePerGas |-> 4, maxFeePerDataGas |-> 6 ]
    IN  inRange \cup
        { [base EXCEPT ![f] = MAX_INTEGER + 1] :
            f \in {"nonce", "gasLimit", "value", "maxFeePerGas", "maxPriorityFeePerGas"} }

Hash1 == Bytes32(BLOB_COMMITMENT_VERSION_KZG, 170)
Hash2 == Bytes32(BLOB_COMMITMENT_VERSION_KZG, 187)
HashWrongVersion == Bytes32(BLOB_COMMITMENT_VERSION_KZG + 1, 170)
HashShort == [i \in 1..31 |-> BLOB_COMMITMENT_VERSION_KZG]

\* Lists of valid hashes up to one over the limit, and lists with a bad hash.
RECURSIVE ValidHashes(_)
ValidHashes(n) ==
    IF n = 0 THEN <<>>
    ELSE Append(ValidHashes(n - 1), IF n % 2 = 1 THEN Hash1 ELSE Hash2)

VersionedHashesInputs ==
       { ValidHashes(n) : n \in 0..(LIMIT_BLOBS_PER_TX + 1) }
    \cup { <<b>> : b \in {HashWrongVersion, HashShort} }
    \cup { <<Hash1, b>> : b \in {HashWrongVersion, HashShort} }

\* No signature, or a triple: v in and out of {0, 1}, r in and out of range,
\* s low, and above half the order.
Signatures ==
    { [v |-> undefined, r |-> undefined, s |-> undefined] } \cup
    { [v |-> Defined(v1), r |-> Defined(r1), s |-> Defined(s1)] :
        v1 \in {0, 1, 2}, r1 \in {7, MAX_INTEGER + 1},
        s1 \in {2, 3, SECP256K1_ORDER_DIV_2 + 1} }

TxOptions ==
    { [freeze |-> undefined, eip1559 |-> TRUE],
      [freeze |-> Defined(TRUE), eip1559 |-> TRUE],
      [freeze |-> Defined(FALSE), eip1559 |-> TRUE],
      [freeze |-> undefined, eip1559 |-> FALSE] }

TxDataOf(n, p, sg, ref) ==
    [ nonce |-> n.nonce, gasLimit |-> n.gasLimit, value |-> n.value,
      maxFeePerGas |-> n.maxFeePerGas,
      maxPriorityFeePerGas |-> n.maxPriorityFeePerGas,
      maxFeePerDataGas |-> n.maxFeePerDataGas,
      to |-> p.to, data |-> p.data, accessList |-> p.accessList,
      versionedHashes |-> ref,
      v |-> sg.v, r |-> sg.r, s |-> sg.s ]

\* Bytes a peer sends: encodings of signed transactions the sender may never
\* have validated.
PeerBytes ==
    { [ typeByte |-> TRANSACTION_TYPE,
        ssz |-> [ message |->
                    [ chainId |-> 1, nonce |-> 1, priorityFeePerGas |-> prio,
                      maxFeePerGas |-> 5, gas |-> gas,
                      to |-> [selector |-> 0, value |-> undefined],
                      value |-> 3, data |-> <<>>, accessList |-> <<>>,
                      blobVersionedHashes |-> hashes,
                      maxFeePerDataGas |-> 6 ],
                  signature |-> [r |-> 7, s |-> s1, yParity |-> par] ] ] :
        prio \in {4, 6}, gas \in {0, 2},
        hashes \in { <<>>, <<Hash1>>, <<HashWrongVersion>>,
                     ValidHashes(LIMIT_BLOBS_PER_TX + 1) },
        s1 \in {2, SECP256K1_ORDER_DIV_2 + 1}, par \in BOOLEAN }

NoBytes == [typeByte |-> 0, ssz |-> <<>>]

Blob1 == <<1, 2>>

Commitment1 == [i \in 1..48 |-> 192]

RECURSIVE Repeat(_, _)
Repeat(x, n) == IF n = 0 THEN <<>> ELSE Append(Repeat(x, n - 1), x)

\* Network wrappers a peer sends: a signed transaction with blobs,
\* commitments and a proof, their counts equal to the number of versioned
\* hashes or not.
PeerWrappers ==
    { [ typeByte |-> TRANSACTION_TYPE,
        ssz |-> [ tx |-> [ message |->
                             [ chainId |-> 1, nonce |-> 1, priorityFeePerGas |-> prio,
                               maxFeePerGas |-> 5, gas |-> 2,
                               to |-> [selector |-> 0, value |-> undefined],
                               value |-> 3, data |-> <<>>, accessList |-> <<>>,
                               blobVersionedHashes |-> hashes,
                               maxFeePerDataGas |-> 6 ],
                           signature |-> [r |-> 7, s |-> 2, yParity |-> TRUE] ],
                  blobs |-> Repeat(Blob1, nBlobs),
                  blobKzgs |-> Repeat(Commitment1, nCommitments),
                  kzgAggregatedProof |-> proof ] ] :
        prio \in {4, 6},
        hashes \in { <<>>, <<Hash1>>, <<HashWrongVersion>>, <<Hash1, Hash2>>,
                     ValidHashes(LIMIT_BLOBS_PER_TX + 1) },
        nBlobs \in 0..(LIMIT_BLOBS_PER_TX + 1),
        nCommitments \in 0..(LIMIT_BLOBS_PER_TX + 1),
        proof \in { <<>>, <<222, 173>> } }

NoWrapper == [typeByte |-> 0, ssz |-> <<>>]

\* The fields a transaction is compared by: its own and the hashes it refers to.
FieldsOf(this, heapNow) ==
    [ nonce |-> this.nonce, gasLimit |-> this.gasLimit,
      maxFeePerGas |-> this.maxFeePerGas,
      maxPriorityFeePerGas |-> this.maxPriorityFeePerGas,
      maxFeePerDataGas |-> this.maxFeePerDataGas,
      to |-> this.to, value |-> this.value, data |-> this.data,
      accessList |-> this.accessList,
      versionedHashes |-> heapNow[this.versionedHashes],
      v |-> this.v, r |-> this.r, s |-> this.s ]

NoFields == [none |-> TRUE]

NotConstructed ==
    [status |-> "none", error |-> "", via |-> "", given |-> <<>>,
     opts |-> <<>>, original |-> NoFields]

NoSerialized == [bytes |-> NoBytes, of |-> NoFields]

NoSender == [status |-> "none", error |-> "", call |-> undefined]

NoHash == [atConstruction |-> undefined, latest |-> undefined]

NotMutated == [count |-> 0, status |-> "none"]

EmptyHeap == [txData |-> <<>>, decoded |-> <<>>]

NoTransaction ==
    /\ tx = undefined
    /\ heap = EmptyHeap
    /\ constructed = NotConstructed
    /\ serialized = NoSerialized
    /\ sender = NoSender
    /\ hashed = NoHash
    /\ mutated = NotMutated
    /\ wrapper = NoWrapper

----------------------------------------------------------------------------
(* Inputs                                                                  *)

\* r: a full 32-byte scalar, and a short one that gets padded.
RInputs == { Bytes32(17, 34), <<1, 2, 3>> }

\* s: 32 bytes with the top bit clear, 32 bytes with the top bit set, a short
\* one, and the empty buffer.
SInputs == { Bytes32(18, 51), Bytes32(146, 51), <<7, 8>>, <<>> }

\* Byte strings a caller may hand to fromRpcSig: every length around 64 and
\* 65, every value of the trailing v byte, both values of the compact bit.
RawBuffers ==
       { zeros(n) : n \in {0, 1, 63} }
    \cup { Bytes32(17, 34) \o Bytes32(b, 51) : b \in {18, 146} }
    \cup { Bytes32(17, 34) \o Bytes32(18, 51) \o <<b>> : b \in 0..255 }
    \cup { Bytes32(17, 34) \o Bytes32(18, 51) \o <<1>> \o zeros(n) : n \in 1..MaxExtraBytes }
    \cup { Bytes32(17, 34) \o Bytes32(18, 51) \o zeros(n) \o <<28>> : n \in 1..MaxExtraBytes }

NoSig == <<255>>

NotDecoded == [rpc |-> NotCalled, compact |-> NotCalled, raw |-> NotCalled]

\* The ways a caller passes homesteadOrLater: omitted, true, false.
Policies == {"default", "enforced", "disabled"}

PolicyArgument(policy) ==
    IF policy = "default" THEN <<>>
    ELSE IF policy = "enforced" THEN <<TRUE>>
    ELSE <<FALSE>>

NotValidated == [policy \in Policies |-> NotCalled]

NoVerification ==
    /\ valid = NotValidated
    /\ recovered = NotCalled

NotCopied == [status |-> "none", original |-> <<>>, result |-> <<>>]

\* A manager just constructed, nothing called on it.
NoStateManagerCall ==
    /\ manager = StatelessVerkleStateManager
    /\ managerCall = NotCalled
    /\ copied = NotCopied

----------------------------------------------------------------------------
(* The signature utilities as a state machine: a caller holds (v, r, s) or *)
(* a signature string and applies the functions to them.                   *)

InitArgs ==
    /\ v \in 0..MaxV
    /\ r \in RInputs
    /\ s \in SInputs
    /\ sig = NoSig

InitRaw ==
    /\ v = 27
    /\ r = Bytes32(17, 34)
    /\ s = Bytes32(18, 51)
    /\ sig \in { bufferToHex(b) : b \in RawBuffers }

InitSig ==
    /\ InitArgs \/ InitRaw
    /\ rpcSig = NotCalled
    /\ compactSig = NotCalled
    /\ decoded = NotDecoded
    /\ sigRecovery = NotCalled
    /\ signed = NotCalled
    /\ NoVerification
    /\ NoStateManagerCall
    /\ NoTransaction

\* The caller signs and goes on with the (v, r, s) that ecsign returned.
Ecsign ==
    /\ sig = NoSig
    /\ signed = NotCalled
    /\ rpcSig = NotCalled /\ compactSig = NotCalled /\ sigRecovery = NotCalled
    /\ \E signSync \in SignSyncResults, chainId \in {NoChainId} \cup (0..MaxChainId) :
          LET e == ecsign(signSync, chainId)
          IN  /\ signed' = Return([chainId |-> chainId, sig |-> e])
              /\ v' = e.v
              /\ r' = e.r
              /\ s' = e.s
    /\ UNCHANGED <<sig, rpcSig, compactSig, decoded, sigRecovery, txVars, restVars>>

CalculateSigRecovery ==
    /\ sig = NoSig
    /\ sigRecovery = NotCalled
    /\ sigRecovery' = Return(calculateSigRecovery(v))
    /\ UNCHANGED <<v, r, s, sig, rpcSig, compactSig, decoded, signed, txVars, restVars>>

ToRpcSig ==
    /\ sig = NoSig
    /\ rpcSig = NotCalled
    /\ rpcSig' = toRpcSig(v, r, s)
    /\ UNCHANGED <<v, r, s, sig, compactSig, decoded, sigRecovery, signed, txVars, restVars>>

ToCompactSig ==
    /\ sig = NoSig
    /\ compactSig = NotCalled
    /\ compactSig' = toCompactSig(v, r, s)
    /\ UNCHANGED <<v, r, s, sig, rpcSig, decoded, sigRecovery, signed, txVars, restVars>>

FromRpcSigOfRpc ==
    /\ rpcSig.status = "ok"
    /\ decoded.rpc = NotCalled
    /\ decoded' = [decoded EXCEPT !.rpc = fromRpcSig(rpcSig.value)]
    /\ UNCHANGED <<v, r, s, sig, rpcSig, compactSig, sigRecovery, signed, txVars, restVars>>

FromRpcSigOfCompact ==
    /\ compactSig.status = "ok"
    /\ decoded.compact = NotCalled
    /\ decoded' = [decoded EXCEPT !.compact = fromRpcSig(compactSig.value)]
    /\ UNCHANGED <<v, r, s, sig, rpcSig, compactSig, sigRecovery, signed, txVars, restVars>>

FromRpcSigOfRaw ==
    /\ sig # NoSig
    /\ decoded.raw = NotCalled
    /\ decoded' = [decoded EXCEPT !.raw = fromRpcSig(sig)]
    /\ UNCHANGED <<v, r, s, sig, rpcSig, compactSig, sigRecovery, signed, txVars, restVars>>

NextSig ==
    \/ Ecsign
    \/ CalculateSigRecovery
    \/ ToRpcSig
    \/ ToCompactSig
    \/ FromRpcSigOfRpc
    \/ FromRpcSigOfCompact
    \/ FromRpcSigOfRaw

SpecSig == InitSig /\ [][NextSig]_vars

----------------------------------------------------------------------------
(* Validation and recovery: a caller holds (v, r, s) of any origin and     *)
(* asks whether it is a valid signature, recovers the key, or encodes it.  *)

\* r: a scalar in range, zero, the group order, the order minus one, a short
\* buffer and a long one.
RScalars ==
    { Bytes32(17, 34), zeros(32), SECP256K1_ORDER,
      [SECP256K1_ORDER EXCEPT ![32] = @ - 1], <<1, 2, 3>>, zeros(1) \o Bytes32(17, 34) }

\* s: the same, and the values around half the order.
SScalars ==
    { Bytes32(18, 51), zeros(32), SECP256K1_ORDER,
      [SECP256K1_ORDER EXCEPT ![32] = @ - 1], <<7, 8>>, zeros(1) \o Bytes32(18, 51),
      SECP256K1_ORDER_DIV_2_BYTES,
      [SECP256K1_ORDER_DIV_2_BYTES EXCEPT ![32] = @ - 1],
      [SECP256K1_ORDER_DIV_2_BYTES EXCEPT ![32] = @ + 1] }

\* v of each kind: 0 and 1, the quirk bands, 27 and 28, EIP-155 values.
VKinds == {0, 1, 2, 26, 27, 28, 29, 34, 35, 37, 38}

\* secp256k1's recoverPublicKey returns a 65-byte uncompressed key (prefix 4).
PublicKey == [i \in 1..65 |-> IF i = 1 THEN 4 ELSE 9]

InitVerify ==
    /\ \/ v \in 0..MaxV /\ r = Bytes32(17, 34) /\ s = Bytes32(18, 51)
       \/ v \in VKinds /\ r \in RScalars /\ s \in SScalars
    /\ sig = NoSig
    /\ rpcSig = NotCalled
    /\ compactSig = NotCalled
    /\ decoded = NotDecoded
    /\ sigRecovery = NotCalled
    /\ signed = NotCalled
    /\ NoVerification
    /\ NoStateManagerCall
    /\ NoTransaction

IsValidSignature ==
    /\ sig = NoSig
    /\ \E policy \in Policies :
          /\ valid[policy] = NotCalled
          /\ valid' = [valid EXCEPT ![policy] =
                          Return(isValidSignature(v, r, s, PolicyArgument(policy)))]
    /\ UNCHANGED <<sigVars, txVars, wrapVars, verkleVars, recovered>>

\* ecrecover hands the signature to recoverPublicKey, which returns a key or
\* throws (no point for this r, say); ecrecover drops the key's prefix byte.
Ecrecover ==
    /\ sig = NoSig
    /\ recovered = NotCalled
    /\ LET call == ecrecover(v, r, s)
       IN  IF call.status = "throw"
           THEN recovered' = call
           ELSE \/ recovered' = Return(slice(PublicKey, 1, 65))
                \/ recovered' = Throw("recoverPublicKey failed")
    /\ UNCHANGED <<sigVars, txVars, wrapVars, verkleVars, valid>>

NextVerify ==
    \/ IsValidSignature
    \/ Ecrecover
    \/ ToRpcSig
    \/ ToCompactSig

SpecVerify == InitVerify /\ [][NextVerify]_vars

----------------------------------------------------------------------------
(* The transaction as a state machine: a caller constructs a transaction   *)
(* from txData or from bytes, serializes it, asks for its hash and sender, *)
(* and may try to change it.                                               *)

NoSignatureCall ==
    /\ v = 27 /\ r = <<>> /\ s = <<>>
    /\ sig = NoSig
    /\ rpcSig = NotCalled
    /\ compactSig = NotCalled
    /\ decoded = NotDecoded
    /\ sigRecovery = NotCalled
    /\ signed = NotCalled
    /\ NoVerification
    /\ NoStateManagerCall

\* The state after `new BlobEIP4844Transaction(txData, opts)` ended as `result`.
Construct(result, via, txData, opts, original, heapNow) ==
    /\ tx' = IF result.status = "ok" THEN Defined(result.value) ELSE undefined
    /\ constructed' = [status |-> result.status, error |-> result.error,
                       via |-> via, given |-> txData, opts |-> opts,
                       original |-> original]
    /\ hashed' = [atConstruction |->
                     IF result.status = "ok"
                     THEN Defined(hash(result.value, heapNow)) ELSE undefined,
                  latest |-> undefined]
    /\ sender' = NoSender
    /\ mutated' = NotMutated

FromTxData ==
    /\ tx = undefined
    /\ constructed = NotConstructed
    /\ serialized = NoSerialized
    /\ wrapper = NoWrapper
    /\ \E n \in Numbers, p \in Payloads, hs \in VersionedHashesInputs,
          sg \in Signatures, opts \in TxOptions :
          LET txData == TxDataOf(n, p, sg, "txData")
              heapNow == [heap EXCEPT !["txData"] = hs]
          IN  /\ heap' = heapNow
              /\ Construct(BlobEIP4844Transaction(txData, opts, heapNow),
                           "fromTxData", txData, opts, NoFields, heapNow)
    /\ UNCHANGED <<serialized, sigVars, restVars>>

Serialize ==
    /\ tx # undefined
    /\ serialized' = [bytes |-> serialize(tx[1], heap), of |-> FieldsOf(tx[1], heap)]
    /\ UNCHANGED <<tx, heap, constructed, sender, hashed, mutated, sigVars, restVars>>

FromSerializedTx ==
    /\ serialized # NoSerialized
    /\ \E opts \in TxOptions :
          LET txData == fromSerializedTxData(serialized.bytes, "decoded")
              heapNow == [heap EXCEPT !["decoded"] =
                             serialized.bytes.ssz.message.blobVersionedHashes]
          IN  /\ heap' = heapNow
              /\ Construct(BlobEIP4844Transaction(txData, opts, heapNow),
                           "fromSerializedTx", txData, opts, serialized.of, heapNow)
    /\ UNCHANGED <<serialized, sigVars, restVars>>

\* The wrapper is decoded and its shape validated; only then is the
\* transaction constructed.
FromSerializedBlobTxNetworkWrapper ==
    /\ wrapper # NoWrapper
    /\ \E opts \in TxOptions :
          LET wrap == wrapper.ssz
              shape == validateBlobTransactionNetworkWrapper(
                           wrap.tx.message.blobVersionedHashes, wrap.blobs,
                           wrap.blobKzgs, wrap.kzgAggregatedProof)
              txData == fromSerializedBlobTxNetworkWrapperData(wrapper, "decoded")
              heapNow == [heap EXCEPT !["decoded"] =
                             wrap.tx.message.blobVersionedHashes]
          IN  IF shape.status = "throw"
              THEN /\ heap' = heap
                   /\ Construct(shape, "fromSerializedBlobTxNetworkWrapper",
                                <<>>, opts, NoFields, heap)
              ELSE /\ heap' = heapNow
                   /\ Construct(BlobEIP4844Transaction(txData, opts, heapNow),
                                "fromSerializedBlobTxNetworkWrapper", txData, opts,
                                NoFields, heapNow)
    /\ UNCHANGED <<serialized, sigVars, restVars>>

\* ecrecover hands the signature to secp256k1's recoverPublicKey, which
\* returns a key or throws; getSenderPublicKey rethrows.
GetSenderPublicKey ==
    /\ tx # undefined
    /\ sender = NoSender
    /\ LET call == getSenderPublicKeyCall(tx[1], heap)
       IN  IF call.status = "throw"
           THEN sender' = [status |-> "throw", error |-> call.error, call |-> undefined]
           ELSE \/ sender' = [status |-> "ok", error |-> "", call |-> Defined(call.value)]
                \/ sender' = [status |-> "throw", error |-> "Invalid Signature",
                              call |-> Defined(call.value)]
    /\ UNCHANGED <<tx, heap, constructed, serialized, hashed, mutated, sigVars, restVars>>

Hash ==
    /\ tx # undefined
    /\ hashed' = [hashed EXCEPT !.latest = Defined(hash(tx[1], heap))]
    /\ UNCHANGED <<tx, heap, constructed, serialized, sender, mutated, sigVars, restVars>>

AssignableFields ==
    {"nonce", "gasLimit", "value", "maxFeePerGas", "maxPriorityFeePerGas",
     "maxFeePerDataGas"}

\* tx.field = value: a TypeError on a frozen object, which stays as it was.
SetField ==
    /\ tx # undefined
    /\ mutated.count < MaxMutations
    /\ \E field \in AssignableFields, value \in {0, 1} :
          IF tx[1].frozen
          THEN /\ tx' = tx
               /\ mutated' = [count |-> mutated.count + 1, status |-> "throw"]
          ELSE /\ tx' = Defined([tx[1] EXCEPT ![field] = value])
               /\ mutated' = [count |-> mutated.count + 1, status |-> "ok"]
    /\ UNCHANGED <<heap, constructed, serialized, sender, hashed, sigVars, restVars>>

\* The caller still holds the array it passed as txData.versionedHashes and
\* pushes to it, pops from it or overwrites an element; an array is never
\* frozen.
MutateVersionedHashes ==
    /\ tx # undefined
    /\ constructed.via = "fromTxData"
    /\ mutated.count < MaxMutations
    /\ LET array == heap["txData"]
       IN  \/ /\ Len(array) < LIMIT_BLOBS_PER_TX
              /\ heap' = [heap EXCEPT !["txData"] = Append(array, Hash2)]
           \/ /\ Len(array) > 0
              /\ heap' = [heap EXCEPT !["txData"] = SubSeq(array, 1, Len(array) - 1)]
           \/ /\ Len(array) > 0
              /\ array[1] # Hash2
              /\ heap' = [heap EXCEPT !["txData"] = [array EXCEPT ![1] = Hash2]]
    /\ mutated' = [count |-> mutated.count + 1, status |-> "ok"]
    /\ UNCHANGED <<tx, constructed, serialized, sender, hashed, sigVars, restVars>>

InitTx ==
    /\ NoSignatureCall
    /\ tx = undefined
    /\ heap = EmptyHeap
    /\ constructed = NotConstructed
    /\ \/ /\ serialized \in {NoSerialized} \cup
                            { [bytes |-> b, of |-> NoFields] : b \in PeerBytes }
          /\ wrapper = NoWrapper
       \/ /\ serialized = NoSerialized
          /\ wrapper \in PeerWrappers
    /\ sender = NoSender
    /\ hashed = NoHash
    /\ mutated = NotMutated

NextTx ==
    \/ FromTxData
    \/ Serialize
    \/ FromSerializedTx
    \/ FromSerializedBlobTxNetworkWrapper
    \/ GetSenderPublicKey

SpecTx == InitTx /\ [][NextTx]_vars

InitMutate == NoSignatureCall /\ NoTransaction

NextMutate ==
    \/ FromTxData
    \/ Hash
    \/ SetField
    \/ MutateVersionedHashes

SpecMutate == InitMutate /\ [][NextMutate]_vars

----------------------------------------------------------------------------
(* The state manager as a state machine: a caller sets the pre-state,      *)
(* takes checkpoints, commits or reverts them, and copies the manager.     *)

Proofs == {"0x01", "0x02"}

VerkleStates == { {}, {<<"key1", "value1">>}, {<<"key1", "value2">>, <<"key2", "value1">>} }

InitPreState ==
    /\ \E proof \in Proofs, preState \in VerkleStates :
          manager' = initPreState(manager, proof, preState)
    /\ managerCall' = Return("initPreState")
    /\ UNCHANGED <<copied, sigVars, txVars, verifyVars, wrapVars>>

Checkpoint ==
    /\ Len(manager._checkpoints) < MaxCheckpoints
    /\ manager' = checkpoint(manager)
    /\ managerCall' = Return("checkpoint")
    /\ UNCHANGED <<copied, sigVars, txVars, verifyVars, wrapVars>>

Commit ==
    /\ manager' = commit(manager)
    /\ managerCall' = Return("commit")
    /\ UNCHANGED <<copied, sigVars, txVars, verifyVars, wrapVars>>

Revert ==
    /\ LET result == revert(manager)
       IN  IF result.status = "throw"
           THEN /\ managerCall' = result
                /\ manager' = manager
           ELSE /\ managerCall' = Return("revert")
                /\ manager' = result.value
    /\ UNCHANGED <<copied, sigVars, txVars, verifyVars, wrapVars>>

Copy ==
    /\ copied' = [status |-> "ok", original |-> manager, result |-> copy(manager)]
    /\ managerCall' = Return("copy")
    /\ UNCHANGED <<manager, sigVars, txVars, verifyVars, wrapVars>>

InitVerkle == NoSignatureCall /\ NoTransaction

NextVerkle ==
    \/ InitPreState
    \/ Checkpoint
    \/ Commit
    \/ Revert
    \/ Copy

SpecVerkle == InitVerkle /\ [][NextVerkle]_vars

----------------------------------------------------------------------------
(* Claims about the blob transaction, checked under SpecTx and SpecMutate  *)

\* C1: fromSerializedTx(tx.serialize()), under a Common with EIP-1559 active,
\* is a transaction equal to tx field for field, signed or unsigned (for tx
\* whose maxFeePerDataGas fits the integer of the encoding).
C1_RoundTrip ==
    (/\ constructed.via = "fromSerializedTx"
     /\ constructed.original # NoFields
     /\ constructed.opts.eip1559
     /\ constructed.original.maxFeePerDataGas <= MAX_INTEGER)
    => /\ constructed.status = "ok"
       /\ tx # undefined
       /\ FieldsOf(tx[1], heap) = constructed.original

\* The signatures the constructor accepts.
AcceptedSignatures ==
    { sg \in Signatures :
        /\ sg.v \in {Defined(0), Defined(1)}
        /\ sg.r[1] <= MAX_INTEGER
        /\ sg.s[1] <= SECP256K1_ORDER_DIV_2 }

\* C2: the message hash getSenderPublicKey passes to ecrecover is the same for
\* every signed transaction that agrees with tx on the non-signature fields,
\* whatever its v, r and s.
C2_MsgHashExcludesSignature ==
    (tx # undefined /\ sender.call # undefined)
    => \A sg \in AcceptedSignatures :
          LET other == [tx[1] EXCEPT !.v = sg.v, !.r = sg.r, !.s = sg.s]
          IN  getSenderPublicKeyCall(other, heap).value.msgHash
                = sender.call[1].msgHash

\* C3: a signed transaction constructed with the default TxOptions (frozen)
\* cannot be changed afterwards, through its fields or through the
\* versionedHashes sequence given to the constructor: hash() keeps returning
\* what it returned right after construction.
C3_HashStableAfterSigning ==
    (/\ tx # undefined
     /\ isSigned(tx[1])
     /\ tx[1].frozen
     /\ hashed.latest # undefined)
    => hashed.latest = hashed.atConstruction

NumericFields ==
    {"nonce", "gasLimit", "value", "maxFeePerGas", "maxPriorityFeePerGas",
     "maxFeePerDataGas"}

\* C9: a constructed transaction has nonce, gasLimit, value, maxFeePerGas,
\* maxPriorityFeePerGas and maxFeePerDataGas within MAX_INTEGER and
\* gasLimit * maxFeePerGas within MAX_INTEGER; construction from txData with
\* one of them out of bound fails and leaves no transaction.
C9_NumericFieldsInBound ==
    /\ (constructed.status = "ok" /\ tx # undefined)
       => /\ \A f \in NumericFields : tx[1][f] <= MAX_INTEGER
          /\ tx[1].gasLimit * tx[1].maxFeePerGas <= MAX_INTEGER
    /\ (/\ constructed.via = "fromTxData"
        /\ \/ \E f \in NumericFields : constructed.given[f] > MAX_INTEGER
           \/ constructed.given.gasLimit * constructed.given.maxFeePerGas > MAX_INTEGER)
       => (constructed.status = "throw" /\ tx = undefined)

FeeOrderingError ==
    "maxFeePerGas cannot be less than maxPriorityFeePerGas (The total must be the larger of the two)"

\* The fees a construction was asked for: those of txData, or those encoded
\* in the bytes.
RequestedFees ==
    IF constructed.via = "fromTxData"
    THEN [ maxFeePerGas |-> constructed.given.maxFeePerGas,
           maxPriorityFeePerGas |-> constructed.given.maxPriorityFeePerGas ]
    ELSE [ maxFeePerGas |-> constructed.given.maxFeePerGas,
           maxPriorityFeePerGas |-> constructed.given.priorityFeePerGas ]

\* The same request would be accepted with a priority fee of 0: nothing but
\* the priority fee can be wrong with it.
AcceptableButForPriorityFee ==
    LET key == IF constructed.via = "fromTxData" THEN "maxPriorityFeePerGas"
               ELSE "priorityFeePerGas"
        zeroed == [constructed.given EXCEPT ![key] = 0]
    IN  BlobEIP4844Transaction(zeroed, constructed.opts, heap).status = "ok"

\* C13: a constructed transaction has maxFeePerGas >= maxPriorityFeePerGas,
\* and a construction asked for maxFeePerGas < maxPriorityFeePerGas, with
\* nothing else wrong, fails with the fee-ordering error, through fromTxData,
\* fromSerializedTx and fromSerializedBlobTxNetworkWrapper alike.
C13_FeeOrdering ==
    /\ (constructed.status = "ok" /\ tx # undefined)
       => tx[1].maxFeePerGas >= tx[1].maxPriorityFeePerGas
    /\ (/\ constructed.status # "none"
        /\ constructed.given # <<>>
        /\ AcceptableButForPriorityFee
        /\ RequestedFees.maxPriorityFeePerGas <= MAX_INTEGER
        /\ RequestedFees.maxFeePerGas < RequestedFees.maxPriorityFeePerGas)
       => /\ constructed.status = "throw"
          /\ constructed.error = FeeOrderingError
          /\ tx = undefined

\* The versioned hashes a construction was given.
GivenHashes == heap[constructed.given.versionedHashes]

WellFormedHash(h) == Len(h) = 32 /\ h[1] = BLOB_COMMITMENT_VERSION_KZG

\* C14: a constructed transaction has at most LIMIT_BLOBS_PER_TX versioned
\* hashes, each of 32 bytes and starting with BLOB_COMMITMENT_VERSION_KZG;
\* a construction given a hash of another length or first byte, or more
\* hashes than the limit, fails and leaves no transaction.
C14_VersionedHashes ==
    /\ (constructed.status = "ok" /\ tx # undefined)
       => LET hashes == heap[tx[1].versionedHashes]
          IN  /\ Len(hashes) <= LIMIT_BLOBS_PER_TX
              /\ \A i \in 1..Len(hashes) : WellFormedHash(hashes[i])
    /\ (/\ constructed.status # "none"
        /\ constructed.given # <<>>
        /\ \/ Len(GivenHashes) > LIMIT_BLOBS_PER_TX
           \/ \E i \in 1..Len(GivenHashes) : ~WellFormedHash(GivenHashes[i]))
       => (constructed.status = "throw" /\ tx = undefined)

\* One hash more than the limit, each well formed, in otherwise acceptable
\* txData: the constructor throws at the count.
C14_Witness ==
    /\ constructed.via = "fromTxData"
    /\ Len(GivenHashes) = LIMIT_BLOBS_PER_TX + 1
    /\ \A i \in 1..Len(GivenHashes) : WellFormedHash(GivenHashes[i])
    /\ constructed.status = "throw"
    /\ constructed.error = "tx can contain at most LIMIT_BLOBS_PER_TX blobs"

WrapperShapeError ==
    "Number of versionedHashes, blobs, and commitments not all equal"

\* C16: fromSerializedBlobTxNetworkWrapper throws the shape error, the
\* constructor never being called, unless the wrapper has as many blobs and
\* as many commitments as versioned hashes; with the three counts equal it
\* does not throw that error, whatever the proof.
C16_WrapperShape ==
    (constructed.via = "fromSerializedBlobTxNetworkWrapper")
    => LET wrap == wrapper.ssz
           equal == /\ Len(wrap.tx.message.blobVersionedHashes) = Len(wrap.blobs)
                    /\ Len(wrap.blobs) = Len(wrap.blobKzgs)
       IN  IF equal
           THEN /\ constructed.error # WrapperShapeError
                /\ constructed.given # <<>>
           ELSE /\ constructed.status = "throw"
                /\ constructed.error = WrapperShapeError
                /\ constructed.given = <<>>
                /\ tx = undefined

\* As many blobs as hashes but one commitment more: the shape error.
C16_Witness ==
    /\ constructed.via = "fromSerializedBlobTxNetworkWrapper"
    /\ Len(wrapper.ssz.tx.message.blobVersionedHashes) = 1
    /\ Len(wrapper.ssz.blobs) = 1
    /\ Len(wrapper.ssz.blobKzgs) = 2
    /\ constructed.status = "throw"
    /\ constructed.error = WrapperShapeError

----------------------------------------------------------------------------
(* Claims about the signature utilities, checked under SpecSig             *)

\* The string each fromRpcSig outcome was decoded from.
InputOf(k) ==
    IF k = "rpc" THEN rpcSig.value
    ELSE IF k = "compact" THEN compactSig.value
    ELSE sig

Origins == {"rpc", "compact", "raw"}

\* C4: for 32-byte r and s that toCompactSig and toRpcSig both accept,
\* decoding the compact and the legacy encoding gives the same r, the same s
\* and the same recovery value (stated for s with its top bit clear, the s
\* that the compact form can hold).
C4_CompactLegacyEquivalence ==
    (/\ Len(r) = 32 /\ Len(s) = 32 /\ Shr7(s[1]) = 0
     /\ decoded.rpc.status = "ok" /\ decoded.compact.status = "ok")
    => /\ decoded.compact.value.r = decoded.rpc.value.r
       /\ decoded.compact.value.s = decoded.rpc.value.s
       /\ decoded.compact.value.recovery = decoded.rpc.value.recovery

\* C5: toCompactSig returns 64 bytes, r padded to 32 then s padded to 32, and
\* the top bit of byte 32 equals calculateSigRecovery(v), for every accepted v
\* and every s whose top bit is clear (stated for s of 32 bytes).
C5_CompactParityBit ==
    (/\ compactSig.status = "ok"
     /\ Len(s) = 32
     /\ Shr7(s[1]) = 0)
    => LET out == hexToBuffer(compactSig.value)
       IN  /\ Len(out) = 64
           /\ slice(out, 0, 32) = setLengthLeft(r, 32)
           /\ [slice(out, 32, 64) EXCEPT ![1] = And0x7f(@)] = setLengthLeft(s, 32)
           /\ Shr7(out[33]) = calculateSigRecovery(v)

\* C6: every signature fromRpcSig returns has recovery 0 or 1.
C6_RecoveryIsBit ==
    \A k \in Origins :
        decoded[k].status = "ok" => decoded[k].value.recovery \in {0, 1}

\* C7 as stated: fromRpcSig returns a signature only for inputs of exactly 64
\* or exactly 65 bytes, and fails with the length error for any other length.
C7_OnlyLength64Or65 ==
    \A k \in Origins :
        decoded[k].status # "none" =>
            LET len == Len(hexToBuffer(InputOf(k)))
            IN  IF len \in {64, 65}
                THEN decoded[k].status = "ok"
                ELSE /\ decoded[k].status = "throw"
                     /\ decoded[k].error = "Invalid signature length"

\* C7 as amended: fromRpcSig returns a signature for inputs of 64 bytes and of
\* 65 bytes or more (bytes 64.. are the big-endian v), and fails with the
\* length error for every input shorter than 64 bytes.
C7_LengthAtLeast64 ==
    \A k \in Origins :
        decoded[k].status # "none" =>
            LET buf == hexToBuffer(InputOf(k))
                len == Len(buf)
            IN  IF len >= 64
                THEN /\ decoded[k].status = "ok"
                     /\ Len(decoded[k].value.r) = 32
                     /\ Len(decoded[k].value.s) = 32
                     /\ len >= 65 =>
                          LET v0 == bufferToBigInt(slice(buf, 64, len))
                          IN  decoded[k].value.v = IF v0 < 27 THEN v0 + 27 ELSE v0
                ELSE /\ decoded[k].status = "throw"
                     /\ decoded[k].error = "Invalid signature length"

C7_Witness ==
    /\ Len(hexToBuffer(sig)) = 63
    /\ sig # NoSig
    /\ decoded.raw.status = "throw"

ByteWidth(n) == IF n < 256 THEN 1 ELSE IF n < 65536 THEN 2 ELSE 3

C10_Precedence ==
    sigRecovery.status = "ok" =>
        /\ sigRecovery.value =
              IF v \in {0, 1} THEN v
              ELSE IF v \in {27, 28} THEN v - 27
              ELSE IF v < 35 THEN v
              ELSE (v - 35) % 2
        /\ (sigRecovery.value \in {0, 1}) <=> (v \in {0, 1, 27, 28} \/ v >= 35)
        /\ v = 27 => sigRecovery.value = 0
        /\ v = 28 => sigRecovery.value = 1
        /\ v = 37 => sigRecovery.value = 0
        /\ v = 38 => sigRecovery.value = 1

C10_Witness ==
    /\ sigRecovery.status = "ok"
    /\ v = 38
    /\ sigRecovery.value = 1

\* C11: for every signature ecsign produces, without a chain id (v = rec + 27)
\* or with a chain id >= 0 (v = rec + 35 + 2 * chainId), calculateSigRecovery
\* of the produced v is the recovery bit rec of the signature.
C11_RecoveryOfSignedV ==
    (signed.status = "ok" /\ sigRecovery.status = "ok")
    => /\ signed.value.sig.recovery \in {0, 1}
       /\ v = IF signed.value.chainId = NoChainId
              THEN signed.value.sig.recovery + 27
              ELSE signed.value.sig.recovery + 35 + 2 * signed.value.chainId
       /\ sigRecovery.value = signed.value.sig.recovery

\* A signature for chain id 0 with recovery bit 1 (v = 36), and its recovery
\* computed back.
C11_Witness ==
    /\ signed.status = "ok"
    /\ signed.value.chainId = 0
    /\ signed.value.sig.recovery = 1
    /\ sigRecovery = Return(1)

----------------------------------------------------------------------------
(* Claims about validation and recovery, checked under SpecVerify          *)

\* a < b for two numbers given by big-endian bytes of the same length.
BytesBelow(a, b) ==
    \E i \in 1..Len(a) :
        /\ a[i] < b[i]
        /\ \A j \in 1..(i - 1) : a[j] = b[j]

NormalizesToBit(vv) == vv \in {0, 1, 27, 28} \/ vv >= 35

\* r, s of 32 bytes, nonzero and below the order, and v normalizing to 0 or 1.
ValidButForLowS ==
    /\ Len(r) = 32 /\ Len(s) = 32
    /\ NormalizesToBit(v)
    /\ r # zeros(32) /\ BytesBelow(r, SECP256K1_ORDER)
    /\ s # zeros(32) /\ BytesBelow(s, SECP256K1_ORDER)

LowS == Len(s) = 32 /\ BytesBelow(s, SECP256K1_ORDER_DIV_2_BYTES)

\* C12: isValidSignature returns true exactly when r and s are 32 bytes each,
\* v normalizes to 0 or 1, r and s are nonzero and below the group order and,
\* unless homesteadOrLater is false, s is below half the order; so a
\* signature valid but for s at or above half the order is rejected by
\* default and accepted with homesteadOrLater = false, and whatever the
\* default accepts is accepted with homesteadOrLater = false.
C12_ValidExactlyWhen ==
    /\ \A policy \in Policies :
          valid[policy].status = "ok" =>
              valid[policy].value =
                  (ValidButForLowS /\ (policy = "disabled" \/ LowS))
    /\ (valid["default"].status = "ok" /\ ValidButForLowS /\ ~LowS)
          => valid["default"].value = FALSE
    /\ (valid["disabled"].status = "ok" /\ ValidButForLowS /\ ~LowS)
          => valid["disabled"].value = TRUE
    /\ (valid["default"] = Return(TRUE) /\ valid["disabled"].status = "ok")
          => valid["disabled"].value = TRUE

\* s is exactly half the order: rejected by default, accepted with the
\* policy disabled.
C12_Witness ==
    /\ s = SECP256K1_ORDER_DIV_2_BYTES
    /\ ValidButForLowS
    /\ valid["default"] = Return(FALSE)
    /\ valid["enforced"] = Return(FALSE)
    /\ valid["disabled"] = Return(TRUE)

\* C15: for v in 2..26 and 29..34 ecrecover, toRpcSig and toCompactSig throw
\* the invalid-v error and return nothing; for v in {0, 1, 27, 28} and
\* v >= 35 toRpcSig and toCompactSig return, and ecrecover does not throw
\* that error.
C15_InvalidVRejected ==
    /\ \A out \in {rpcSig, compactSig, recovered} :
          (out.status # "none" /\ ~NormalizesToBit(v))
          => out = Throw("Invalid signature v value")
    /\ \A out \in {rpcSig, compactSig} :
          (out.status # "none" /\ NormalizesToBit(v)) => out.status = "ok"
    /\ (recovered.status # "none" /\ NormalizesToBit(v))
          => recovered.error # "Invalid signature v value"

\* All three have thrown for v = 34, the last value of the upper band.
C15_Witness ==
    /\ v = 34
    /\ rpcSig.status = "throw"
    /\ compactSig.status = "throw"
    /\ recovered.status = "throw"

----------------------------------------------------------------------------
(* Claims about the state manager, checked under SpecVerkle                *)

\* The manager after reverting every outstanding checkpoint.
RECURSIVE RevertAll(_)
RevertAll(this) ==
    IF this._checkpoints = <<>> THEN this ELSE RevertAll(revert(this).value)

\* C17: copy() returns a manager whose state is the state of the original at
\* its last fully committed point: the state the original would have after
\* reverting all its outstanding checkpoints.
C17_CopyAtCommittedPoint ==
    copied.status = "ok"
    => copied.result._state = RevertAll(copied.original)._state

====
